---- MODULE Spec2Model ----
(***************************************************************************)
(* Transactional provisioning of Orgs, Apps, Users and OrgKinds:           *)
(* OrgService (Create, Update, Delete, FindAll, FindByExternalID) and      *)
(* GenesisService.Seed, run by concurrent callers against one datastore    *)
(* with read-committed transactions.  Every step of an operation is one    *)
(* storage call (the only suspension points of the code).                  *)
(***************************************************************************)
EXTENDS Integers, Sequences, FiniteSets, TLC

\* ------------------------------------------------------------------ bounds
MaxOps == 3      \* operations started in one behaviour
MaxClock == 1    \* latest moment of the wall clock
MaxRows == 2     \* largest affected-row count a write may report

Procs == {1, 2}  \* concurrent callers

\* ------------------------------------------------------------- error kinds
NoErr == "nil"
Kinds == {"Validation", "NotExist", "Database", "Internal", "Other"}

\* errs.E(kind, err): an explicitly given kind is the kind of the result
\* whatever the kind of the wrapped error; without one the wrapped kind stays.
E(kind, inner) == IF kind # "Other" THEN kind ELSE IF inner = NoErr THEN "Other" ELSE inner

\* ------------------------------------------------------------ identifiers
\* uuid.New() / secure.NewID(): fresh per call.  The n-th operation started
\* mints <<n, role>>; no two operations share n.
Nil == <<0, "nil">>
NewUUID(n, role) == <<n, role>>
NewID(n, role) == <<n, role, "extl">>
NoSuchExtl == <<0, "none", "extl">>

genesisOrgTypeString == "genesis"
KindTags == {genesisOrgTypeString, "test", "standard"}

\* ------------------------------------------------------------------ inputs
Actors == {[App |-> "appA", User |-> "userA"], [App |-> "appB", User |-> "userB"]}
AcmeText == [Name |-> "Acme", Description |-> "first"]
OrgTexts == {AcmeText, [Name |-> "Bolt", Description |-> "second"]}
ReqKinds == {genesisOrgTypeString, "standard", ""}
SeedUsernames == {<<"r">>, <<" ", "r", " ">>}

\* strings.TrimSpace on a string given as a tuple of characters
RECURSIVE TrimLeft(_)
TrimLeft(s) == IF s # <<>> /\ Head(s) = " " THEN TrimLeft(Tail(s)) ELSE s
RECURSIVE TrimRight(_)
TrimRight(s) ==
    IF s # <<>> /\ s[Len(s)] = " " THEN TrimRight(SubSeq(s, 1, Len(s) - 1)) ELSE s
TrimSpace(s) == TrimRight(TrimLeft(s))

\* ------------------------------------------------------------------- state
VARIABLES
    db,      \* the committed store: [kinds, orgs, apps, users], sets of rows
    now,     \* the wall clock: the latest moment read
    nextOp,  \* number of the next operation to start
    minted,  \* the highest identifier number a committed operation has used
    seeded,  \* how many Seed calls have committed
    pc,      \* per caller: where its operation stands
    op,      \* per caller: the operation, its number, request and audit, and
             \* pre, the committed store when it was called
    tx,      \* per caller: its transaction, [state, writes]
    out,     \* per caller: the named results, [resp, err], and det, the kind
             \* the error had where it was detected
    loc,     \* per caller: the operation's local variables
    calls,   \* per caller: the storage calls its operation has issued
    env      \* the environment: which callers are active, whether storage fails

vars == <<db, now, nextOp, minted, seeded, pc, op, tx, out, loc, calls, env>>

EmptyDB == [kinds |-> {}, orgs |-> {}, apps |-> {}, users |-> {}]
NoTx == [state |-> "none", writes |-> <<>>]
NoOp == [name |-> "none", n |-> 0]
NoResp == "none"
\* The zero value of an operation's response: nil, or DeleteResponse{}.
Zero(name) == IF name = "Delete" THEN [ExternalID |-> "", Deleted |-> FALSE] ELSE NoResp
NoOut == [resp |-> NoResp, err |-> NoErr, det |-> NoErr]

Start(e) ==
    /\ env = e
    /\ db = EmptyDB
    /\ now = 0
    /\ nextOp = 1
    /\ minted = 0
    /\ seeded = 0
    /\ pc = [p \in Procs |-> "idle"]
    /\ op = [p \in Procs |-> NoOp]
    /\ tx = [p \in Procs |-> NoTx]
    /\ out = [p \in Procs |-> NoOut]
    /\ loc = [p \in Procs |-> <<>>]
    /\ calls = [p \in Procs |-> <<>>]

\* One caller at a time; every storage call may fail.
Init == Start([callers |-> {1}, faults |-> TRUE])

\* Two concurrent callers.
InitConc == Start([callers |-> Procs, faults |-> FALSE])

\* The outcomes of a step that may fail.
Fails == IF env.faults THEN BOOLEAN ELSE {FALSE}

\* ------------------------------------------------------- the datastore
\* One pending write of a transaction applied to a store.
ApplyWrite(d, w) ==
    CASE w.t = "insKind" -> [d EXCEPT !.kinds = @ \cup {w.row}]
      [] w.t = "insOrg"  -> [d EXCEPT !.orgs = @ \cup {w.row}]
      [] w.t = "insApp"  -> [d EXCEPT !.apps = @ \cup {w.row}]
      [] w.t = "insUser" -> [d EXCEPT !.users = @ \cup {w.row}]
      [] w.t = "updOrg"  ->
            [d EXCEPT !.orgs = {IF o.ID = w.ID
                                  THEN [o EXCEPT !.Name = w.Name,
                                                 !.Description = w.Description,
                                                 !.Update = w.Update]
                                  ELSE o : o \in @}]
      [] w.t = "delApp"  -> [d EXCEPT !.apps = {a \in @ : a.ID # w.ID}]
      [] w.t = "delOrg"  -> [d EXCEPT !.orgs = {o \in @ : o.ID # w.ID}]

RECURSIVE ApplyAll(_, _)
ApplyAll(d, ws) == IF ws = <<>> THEN d ELSE ApplyAll(ApplyWrite(d, Head(ws)), Tail(ws))

\* Read committed: a statement of p's transaction sees what is committed at
\* the moment of the statement, plus the transaction's own writes.
View(p) == ApplyAll(db, tx[p].writes)

\* The row a pending write holds a lock on.
Touches(w, id) ==
    \/ w.t \in {"updOrg", "delOrg", "delApp"} /\ w.ID = id
    \/ w.t \in {"insOrg", "insApp"} /\ w.row.ID = id

\* A write to a row waits while another open transaction holds a write on it.
LockedByOther(p, id) ==
    \E q \in Procs \ {p} :
        /\ tx[q].state = "open"
        /\ \E i \in DOMAIN tx[q].writes : Touches(tx[q].writes[i], id)

\* An insert of a unique key waits while another open transaction holds an
\* uncommitted insert of the same key.
KindPendingByOther(p, tag) ==
    \E q \in Procs \ {p} :
        /\ tx[q].state = "open"
        /\ \E i \in DOMAIN tx[q].writes :
              /\ tx[q].writes[i].t = "insKind"
              /\ tx[q].writes[i].row.ExternalID = tag

\* What a write statement reports: a storage error, or an affected-row count.
WriteOutcomes ==
    IF env.faults
    THEN {[fail |-> TRUE, rows |-> 0]} \cup {[fail |-> FALSE, rows |-> k] : k \in 0 .. MaxRows}
    ELSE {[fail |-> FALSE, rows |-> 1]}

\* The entry a storage call leaves in the caller's log.
Call(c, res) == [c |-> c, res |-> res]
WriteRes(st) == IF st.fail THEN "err" ELSE IF st.rows = 1 THEN "ok" ELSE "rows"

\* Datastorer.BeginTx / CommitTx / RollbackTx.  A transaction a commit or a
\* rollback was attempted on is closed whatever the attempt's result;
\* only a commit that succeeded makes its writes visible.
\* RollbackTx(tx, err) returns err unchanged, or a Database error when the
\* rollback itself fails; on a closed transaction there is nothing to roll back.
RollbackTx(t, cause, fail) ==
    IF t.state # "open"
    THEN [tx |-> t, err |-> cause, res |-> "closed"]
    ELSE IF fail
         THEN [tx |-> [state |-> "aborted", writes |-> <<>>], err |-> "Database", res |-> "err"]
         ELSE [tx |-> [state |-> "aborted", writes |-> <<>>], err |-> cause, res |-> "ok"]

\* CommitTx(tx): fails(Database); the writes become visible only on success.
CommitTx(t, ok) ==
    IF ok THEN [tx |-> [state |-> "committed", writes |-> <<>>], err |-> NoErr, res |-> "ok"]
    ELSE [tx |-> [state |-> "aborted", writes |-> <<>>], err |-> "Database", res |-> "err"]

\* ---------------------------------------------------------- shared steps
Running(p) == pc[p] \notin {"idle", "done"}

\* A caller starts an operation when it has none running.  Callers are
\* interchangeable, so the second one is only needed while the first is busy.
CanStart(p) ==
    /\ p \in env.callers
    /\ ~Running(p)
    /\ nextOp <= MaxOps
    /\ (p = 1 \/ Running(1))

\* The operation returns to its caller with the results o.
Return(p, o) ==
    /\ pc' = [pc EXCEPT ![p] = "done"]
    /\ out' = [out EXCEPT ![p] = o]

\* The operation goes on to its next step.
Goto(p, l) == pc' = [pc EXCEPT ![p] = l]

\* return <zero>, e: the results are set and the deferred function runs next.
Fail(p, e, d) ==
    /\ Goto(p, "rollback")
    /\ out' = [out EXCEPT ![p] = [resp |-> Zero(op[p].name), err |-> e, det |-> d]]

\* The number under which an operation mints its identifiers (uuid.New,
\* secure.NewID): one no committed row and no other caller's operation uses.
\* Identifiers are opaque, so the least such number stands for any fresh one.
FreshN(p) ==
    LET used == {minted} \cup {op[q].n : q \in Procs \ {p}} IN
    1 + CHOOSE m \in used : \A k \in used : k <= m

\* The operation is entered: request check, then BeginTx.
Enter(p, name, req, adt, pre, invalid, ok, first) ==
    /\ CanStart(p)
    /\ op' = [op EXCEPT ![p] = [name |-> name, n |-> FreshN(p), req |-> req, adt |-> adt,
                               pre |-> db]]
    /\ nextOp' = nextOp + 1
    /\ loc' = [loc EXCEPT ![p] = <<>>]
    /\ UNCHANGED <<db, now, minted, seeded, env>>
    /\ IF invalid # NoErr
       THEN /\ tx' = [tx EXCEPT ![p] = NoTx]
            /\ calls' = [calls EXCEPT ![p] = pre]
            /\ Return(p, [resp |-> Zero(name), err |-> invalid, det |-> invalid])
       ELSE IF ~ok
       THEN /\ tx' = [tx EXCEPT ![p] = NoTx]
            /\ calls' = [calls EXCEPT ![p] = Append(pre, Call("BeginTx", "err"))]
            /\ Return(p, [resp |-> Zero(name), err |-> "Database", det |-> "Database"])
       ELSE /\ tx' = [tx EXCEPT ![p] = [state |-> "open", writes |-> <<>>]]
            /\ calls' = [calls EXCEPT ![p] = Append(pre, Call("BeginTx", "ok"))]
            /\ out' = [out EXCEPT ![p] = NoOut]
            /\ pc' = [pc EXCEPT ![p] = first]

\* A write statement of p's transaction: logged, and pending when it took effect.
Write(p, c, w, st) ==
    /\ calls' = [calls EXCEPT ![p] = Append(@, Call(c, WriteRes(st)))]
    /\ tx' = [tx EXCEPT ![p].writes = IF ~st.fail /\ st.rows >= 1 THEN Append(@, w) ELSE @]

\* A read statement of p's transaction.
Read(p, c, res) ==
    /\ calls' = [calls EXCEPT ![p] = Append(@, Call(c, res))]
    /\ UNCHANGED tx

\* defer func() { err = s.Datastorer.RollbackTx(ctx, tx, err) }()
\* runs on every return of Create, Update, Delete, FindAll, FindByExternalID
\* after BeginTx succeeded.
DeferredRollback(p) ==
    /\ pc[p] = "rollback"
    /\ \E fail \in Fails :
          LET r == RollbackTx(tx[p], out[p].err, fail) IN
          /\ tx' = [tx EXCEPT ![p] = r.tx]
          /\ calls' = [calls EXCEPT ![p] = Append(@, Call("RollbackTx", r.res))]
          /\ Return(p, [out[p] EXCEPT !.err = r.err])
    /\ UNCHANGED <<db, now, nextOp, minted, seeded, op, loc, env>>

\* time.Now(): the clock is only seen when it is read, and never runs
\* backwards; a reading is any moment from the last one seen on.
Readings == now .. MaxClock

\* ------------------------------------------------------ OrgService.Create
\* The valid requests, one without an App request, one without a Kind.
CreateOrgRequests ==
    [Kind : ReqKinds \ {""}, Text : {AcmeText}, HasApp : {TRUE}]
    \cup {[Kind |-> "standard", Text |-> AcmeText, HasApp |-> FALSE],
          [Kind |-> "", Text |-> AcmeText, HasApp |-> TRUE]}

\* CreateOrgRequest.Validate: the required fields of the request are not empty.
Validate(r) ==
    IF r.Kind = "" \/ r.Text.Name = "" \/ r.Text.Description = ""
    THEN E("Validation", NoErr) ELSE NoErr

\* Create, lines 58-69: r == nil || *r.CreateAppRequest == (CreateAppRequest{}),
\* then r.Validate().
CreateRequestCheck(r) ==
    IF ~r.HasApp THEN E("Validation", NoErr) ELSE Validate(r)

NewSimpleAudit(adt) == [Create |-> adt, Update |-> adt]

\* findOrgKindByExtlID: every error of the query, pgx.ErrNoRows included,
\* comes back as a Database error.
findOrgKindByExtlID(d, extlID, fail) ==
    LET rows == {k \in d.kinds : k.ExternalID = extlID} IN
    IF fail THEN [err |-> E("Database", NoErr), res |-> "err", kind |-> [ID |-> Nil, ExternalID |-> ""]]
    ELSE IF rows = {} THEN [err |-> E("Database", NoErr), res |-> "norows", kind |-> [ID |-> Nil, ExternalID |-> ""]]
    ELSE LET k == CHOOSE k \in rows : TRUE IN
         [err |-> NoErr, res |-> "ok", kind |-> [ID |-> k.ID, ExternalID |-> k.ExternalID]]

\* newCreateOrgParams: the row CreateOrg inserts.
newCreateOrgParams(oa) ==
    [ID |-> oa.Org.ID, ExternalID |-> oa.Org.ExternalID, Name |-> oa.Org.Name,
     Description |-> oa.Org.Description, KindID |-> oa.Org.Kind.ID,
     Create |-> oa.SimpleAudit.Create, Update |-> oa.SimpleAudit.Update]

\* createOrgTx without its row-count check.
createOrgTx_NoRowCheck(oa, st) ==
    IF oa.Org.Kind.ID = Nil THEN E("Other", NoErr)
    ELSE IF st.fail THEN E("Database", NoErr)
    ELSE NoErr

\* createOrgTx: the error it returns for what CreateOrg reported.
createOrgTx(oa, st) ==
    IF oa.Org.Kind.ID = Nil THEN E("Other", NoErr)
    ELSE IF st.fail THEN E("Database", NoErr)
    ELSE IF st.rows # 1 THEN E("Database", NoErr)
    ELSE NoErr

\* createAppTx: the App's row and the error for what CreateApp reported.
newCreateAppParams(aa) ==
    [ID |-> aa.App.ID, ExternalID |-> aa.App.ExternalID, OrgID |-> aa.App.OrgID,
     Name |-> aa.App.Name, Audit |-> aa.SimpleAudit.Create]

createAppTx(st) ==
    IF st.fail THEN E("Database", NoErr)
    ELSE IF st.rows # 1 THEN E("Database", NoErr)
    ELSE NoErr

\* newOrgResponse
newOrgResponse(oa, app) ==
    [ExternalID |-> oa.Org.ExternalID, Name |-> oa.Org.Name,
     Description |-> oa.Org.Description, KindExternalID |-> oa.Org.Kind.ExternalID,
     Create |-> oa.SimpleAudit.Create, Update |-> oa.SimpleAudit.Update, App |-> app]

CallCreate(p) ==
    \E r \in CreateOrgRequests, a \in Actors, ok \in {~f : f \in Fails} :
        Enter(p, "Create", r, [App |-> a.App, User |-> a.User, Moment |-> now], <<>>,
              CreateRequestCheck(r), ok, "createFindKind")

\* Create, lines 87-134: the kind is looked up, the Org and the App are built.
CreateFindKind(p) ==
    /\ pc[p] = "createFindKind"
    /\ \E fail \in Fails, keyFail \in Fails :
          LET f == findOrgKindByExtlID(View(p), op[p].req.Kind, fail)
              o == [ID |-> NewUUID(op[p].n, "org"), ExternalID |-> NewID(op[p].n, "org"),
                    Name |-> op[p].req.Text.Name,
                    Description |-> op[p].req.Text.Description, Kind |-> f.kind]
              a == [ID |-> NewUUID(op[p].n, "app"), ExternalID |-> NewID(op[p].n, "app"),
                    OrgID |-> o.ID, Name |-> "app"]
              sa == NewSimpleAudit(op[p].adt)
          IN
          /\ Read(p, "FindOrgKindByExtlID", f.res)
          /\ IF f.err # NoErr
             THEN Fail(p, f.err, f.err) /\ UNCHANGED loc
             ELSE IF keyFail
             THEN Fail(p, "Internal", "Internal") /\ UNCHANGED loc
             ELSE /\ loc' = [loc EXCEPT ![p] =
                                [oa |-> [Org |-> o, SimpleAudit |-> sa],
                                 aa |-> [App |-> a, SimpleAudit |-> sa]]]
                  /\ Goto(p, "createOrg")
                  /\ UNCHANGED out
    /\ UNCHANGED <<db, now, nextOp, minted, seeded, op, env>>

\* The Org written together with a fresh copy of its OrgKind row.
CreateOrgStep_WithKind(p) ==
    /\ pc[p] = "createOrg"
    /\ \E st \in WriteOutcomes :
          LET e == createOrgTx(loc[p].oa, st)
              k == [ID |-> NewUUID(op[p].n, "kind"),
                    ExternalID |-> loc[p].oa.Org.Kind.ExternalID, Audit |-> op[p].adt]
          IN
          /\ calls' = [calls EXCEPT ![p] =
                         @ \o <<Call("CreateOrgKind", "ok"), Call("CreateOrg", WriteRes(st))>>]
          /\ tx' = [tx EXCEPT ![p].writes =
                      @ \o <<[t |-> "insKind", row |-> k]>>
                        \o (IF ~st.fail /\ st.rows >= 1
                            THEN <<[t |-> "insOrg", row |-> newCreateOrgParams(loc[p].oa)]>>
                            ELSE <<>>)]
          /\ IF e # NoErr THEN Fail(p, e, e) ELSE Goto(p, "createApp") /\ UNCHANGED out
    /\ UNCHANGED <<db, now, nextOp, minted, seeded, op, loc, env>>

\* Create, lines 136-140
CreateOrgStep(p) ==
    /\ pc[p] = "createOrg"
    /\ \E st \in WriteOutcomes :
          LET e == createOrgTx(loc[p].oa, st) IN
          /\ IF loc[p].oa.Org.Kind.ID = Nil
             THEN UNCHANGED <<tx, calls>>
             ELSE Write(p, "CreateOrg", [t |-> "insOrg", row |-> newCreateOrgParams(loc[p].oa)], st)
          /\ IF e # NoErr THEN Fail(p, e, e) ELSE Goto(p, "createApp") /\ UNCHANGED out
    /\ UNCHANGED <<db, now, nextOp, minted, seeded, op, loc, env>>

\* Create, lines 142-148
CreateAppStep(p) ==
    /\ pc[p] = "createApp"
    /\ \E st \in WriteOutcomes :
          LET e == createAppTx(st) IN
          /\ Write(p, "CreateApp", [t |-> "insApp", row |-> newCreateAppParams(loc[p].aa)], st)
          /\ IF e # NoErr THEN Fail(p, e, e) ELSE Goto(p, "createCommit") /\ UNCHANGED out
    /\ UNCHANGED <<db, now, nextOp, minted, seeded, op, loc, env>>

\* CommitTx, then "return response, nil" (or "return <zero>, err").
Commit(p, resp) ==
    \E ok \in {~f : f \in Fails} :
        LET c == CommitTx(tx[p], ok) IN
        /\ tx' = [tx EXCEPT ![p] = c.tx]
        /\ db' = IF ok THEN View(p) ELSE db
        /\ minted' = IF ok /\ op[p].n > minted THEN op[p].n ELSE minted
        /\ calls' = [calls EXCEPT ![p] = Append(@, Call("CommitTx", c.res))]
        /\ Goto(p, "rollback")
        /\ out' = [out EXCEPT ![p] =
                     IF ok THEN [resp |-> resp, err |-> NoErr, det |-> NoErr]
                     ELSE [resp |-> Zero(op[p].name), err |-> c.err, det |-> c.err]]
        /\ UNCHANGED <<now, nextOp, seeded, op, loc, env>>

\* Create, lines 150-158
CreateCommit(p) ==
    /\ pc[p] = "createCommit"
    /\ Commit(p, newOrgResponse(loc[p].oa, loc[p].aa.App.ExternalID))

\* ------------------------------------------------------ GenesisService.Seed
\* genesisHasOccurred refusing only when both the kind and the Org exist.
genesisHasOccurred_And(d, f1, f2) ==
    LET hasGenesisOrgTypeRow == \E k \in d.kinds : k.ExternalID = genesisOrgTypeString
        hasGenesisOrgRow == \E o \in d.orgs : \E k \in d.kinds :
                                k.ID = o.KindID /\ k.ExternalID = genesisOrgTypeString
        q1 == Call("FindOrgKindByExtlID",
                   IF f1 THEN "err" ELSE IF hasGenesisOrgTypeRow THEN "ok" ELSE "norows")
        q2 == Call("FindOrgByKindExtlID", IF f2 THEN "err" ELSE "ok")
    IN
    IF f1 THEN [err |-> E("Database", NoErr), calls |-> <<q1>>]
    ELSE IF f2 THEN [err |-> E("Database", NoErr), calls |-> <<q1, q2>>]
    ELSE IF hasGenesisOrgTypeRow /\ hasGenesisOrgRow
         THEN [err |-> E("Validation", NoErr), calls |-> <<q1, q2>>]
         ELSE [err |-> NoErr, calls |-> <<q1, q2>>]

\* genesisHasOccurred looking at the Org rows only.
genesisHasOccurred_OrgOnly(d, f1, f2) ==
    LET hasGenesisOrgTypeRow == \E k \in d.kinds : k.ExternalID = genesisOrgTypeString
        hasGenesisOrgRow == \E o \in d.orgs : \E k \in d.kinds :
                                k.ID = o.KindID /\ k.ExternalID = genesisOrgTypeString
        q1 == Call("FindOrgKindByExtlID",
                   IF f1 THEN "err" ELSE IF hasGenesisOrgTypeRow THEN "ok" ELSE "norows")
        q2 == Call("FindOrgByKindExtlID", IF f2 THEN "err" ELSE "ok")
    IN
    IF f1 THEN [err |-> E("Database", NoErr), calls |-> <<q1>>]
    ELSE IF f2 THEN [err |-> E("Database", NoErr), calls |-> <<q1, q2>>]
    ELSE IF hasGenesisOrgRow
         THEN [err |-> E("Validation", NoErr), calls |-> <<q1, q2>>]
         ELSE [err |-> NoErr, calls |-> <<q1, q2>>]

\* genesisHasOccurred, on the pool (outside any transaction): the error it
\* returns and the queries it issued.  f1, f2: the query fails.
genesisHasOccurred(d, f1, f2) ==
    LET hasGenesisOrgTypeRow == \E k \in d.kinds : k.ExternalID = genesisOrgTypeString
        existingOrgs == {o \in d.orgs : \E k \in d.kinds :
                            k.ID = o.KindID /\ k.ExternalID = genesisOrgTypeString}
        hasGenesisOrgRow == existingOrgs # {}
        q1 == Call("FindOrgKindByExtlID",
                   IF f1 THEN "err" ELSE IF hasGenesisOrgTypeRow THEN "ok" ELSE "norows")
        q2 == Call("FindOrgByKindExtlID", IF f2 THEN "err" ELSE "ok")
    IN
    IF f1 THEN [err |-> E("Database", NoErr), calls |-> <<q1>>]
    ELSE IF f2 THEN [err |-> E("Database", NoErr), calls |-> <<q1, q2>>]
    ELSE IF hasGenesisOrgTypeRow \/ hasGenesisOrgRow
         THEN [err |-> E("Validation", NoErr), calls |-> <<q1, q2>>]
         ELSE [err |-> NoErr, calls |-> <<q1, q2>>]

\* The OrgKind helpers passing over an error of the insert.
createOrgKind_ErrorIgnored(st) ==
    IF ~st.fail /\ st.rows # 1 THEN E("Database", NoErr)
    ELSE NoErr

\* createPrincipalOrgKind / createTestOrgKind / createStandardOrgKind: the
\* error for what CreateOrgKind reported.
createOrgKind(st) ==
    IF st.fail THEN E("Database", NoErr)
    ELSE IF st.rows # 1 THEN E("Database", NoErr)
    ELSE NoErr

\* The unique constraint on the OrgKind tag: an insert of a tag the
\* transaction can see fails.
KindOutcomes(p, tag) ==
    IF \E k \in View(p).kinds : k.ExternalID = tag
    THEN {[fail |-> TRUE, rows |-> 0]}
    ELSE WriteOutcomes

\* createOrgDB / createAppDB / createUserDB: the write helpers of Seed write
\* one row, check the row count and roll the transaction back on failure.
rollbackOnError(t, e, rbFail) ==
    IF e = NoErr THEN [tx |-> t, err |-> NoErr, det |-> NoErr, calls |-> <<>>]
    ELSE LET r == RollbackTx(t, e, rbFail) IN
         [tx |-> r.tx, err |-> E("Database", r.err), det |-> e,
          calls |-> <<Call("RollbackTx", r.res)>>]

createOrgDB(t, oa, st, rbFail) == rollbackOnError(t, createOrgTx(oa, st), rbFail)
createAppDB(t, st, rbFail) == rollbackOnError(t, createAppTx(st), rbFail)
createUserDB(t, st, rbFail) == rollbackOnError(t, createAppTx(st), rbFail)

SeedRequests == [SeedUsername : SeedUsernames]

\* Seed, lines 174-184: the guard, then BeginTx.
CallSeed(p) ==
    \E r \in SeedRequests, f1 \in Fails, f2 \in Fails, ok \in {~f : f \in Fails} :
        LET g == genesisHasOccurred(db, f1, f2) IN
        Enter(p, "Seed", r, "none", g.calls, g.err, ok, "seedGenesis")

\* A step of Seed that ends it: "return FullGenesisResponse{}, err".
SeedFail(p, e, d) == Return(p, [resp |-> NoResp, err |-> e, det |-> d])

\* The key failure returned without rolling the transaction back.
SeedKeyFail_NoRollback(p, rbFail) ==
    /\ UNCHANGED <<tx, calls>>
    /\ SeedFail(p, E("Internal", NoErr), "Internal")

\* a.AddNewKey failed: errs.E(errs.Internal, s.Datastorer.RollbackTx(ctx, tx, err))
SeedKeyFail(p, rbFail) ==
    LET r == RollbackTx(tx[p], "Internal", rbFail) IN
    /\ tx' = [tx EXCEPT ![p] = r.tx]
    /\ calls' = [calls EXCEPT ![p] = Append(@, Call("RollbackTx", r.res))]
    /\ SeedFail(p, E("Internal", r.err), "Internal")

\* The seed entities with the username taken as given.
SeedEntities_Untrimmed(n, phase, r, k, moment) ==
    LET o == [ID |-> NewUUID(n, phase \o "Org"), ExternalID |-> NewID(n, phase \o "Org"),
              Name |-> phase,
              Description |-> phase, Kind |-> k]
        a == [ID |-> NewUUID(n, phase \o "App"), ExternalID |-> NewID(n, phase \o "App"),
              OrgID |-> o.ID, Name |-> IF phase = "genesis" THEN "WOPR" ELSE "test"]
        u == [ID |-> NewUUID(n, phase \o "User"), Username |-> r.SeedUsername,
              OrgID |-> o.ID]
    IN [phase |-> phase, o |-> o, a |-> a, u |-> u,
        adt |-> [App |-> a.ID, User |-> u.ID, Moment |-> moment]]

\* The Org, App, User and Audit seedGenesis / seedTest build.
SeedEntities(n, phase, r, k, moment) ==
    LET o == [ID |-> NewUUID(n, phase \o "Org"), ExternalID |-> NewID(n, phase \o "Org"),
              Name |-> phase,
              Description |-> phase, Kind |-> k]
        a == [ID |-> NewUUID(n, phase \o "App"), ExternalID |-> NewID(n, phase \o "App"),
              OrgID |-> o.ID, Name |-> IF phase = "genesis" THEN "WOPR" ELSE "test"]
        u == [ID |-> NewUUID(n, phase \o "User"), Username |-> TrimSpace(r.SeedUsername),
              OrgID |-> o.ID]
    IN [phase |-> phase, o |-> o, a |-> a, u |-> u,
        adt |-> [App |-> a.ID, User |-> u.ID, Moment |-> moment]]

NilKind == [ID |-> Nil, ExternalID |-> ""]

\* seedGenesis, lines 228-276
SeedGenesisBuild(p) ==
    /\ pc[p] = "seedGenesis"
    /\ \E keyFail \in Fails, rbFail \in Fails, m \in Readings :
          IF keyFail
          THEN SeedKeyFail(p, rbFail) /\ UNCHANGED <<loc, now>>
          ELSE /\ now' = m
               /\ loc' = [loc EXCEPT ![p] =
                             [cur |-> SeedEntities(op[p].n, "genesis", op[p].req, NilKind, m),
                              tk |-> NilKind, g |-> "none"]]
               /\ Goto(p, "seedKindGenesis")
               /\ UNCHANGED <<tx, calls, out>>
    /\ UNCHANGED <<db, nextOp, minted, seeded, op, env>>

SeedKindTag(l) ==
    CASE l = "seedKindGenesis" -> genesisOrgTypeString
      [] l = "seedKindTest" -> "test"
      [] l = "seedKindStandard" -> "standard"

\* The steps of seedGenesis with the standard kind left out.
SeedKindNext_NoStandard(l) ==
    CASE l = "seedKindGenesis" -> "seedKindTest"
      [] l = "seedKindTest" -> "seedOrg"
      [] l = "seedKindStandard" -> "seedOrg"

SeedKindNext(l) ==
    CASE l = "seedKindGenesis" -> "seedKindTest"
      [] l = "seedKindTest" -> "seedKindStandard"
      [] l = "seedKindStandard" -> "seedOrg"

\* The kind failure returned without rolling the transaction back.
seedKindError_NoRollback(t, e, rbFail) ==
    [tx |-> t, err |-> E("Database", e), calls |-> <<>>]

\* seedGenesis, lines 281-283 (and 293-295, 303-305):
\* errs.E(errs.Database, s.Datastorer.RollbackTx(ctx, tx, err))
seedKindError(t, e, rbFail) ==
    LET r == RollbackTx(t, e, rbFail) IN
    [tx |-> r.tx, err |-> E("Database", r.err), calls |-> <<Call("RollbackTx", r.res)>>]

\* seedGenesis, lines 278-305: the three OrgKind rows.
SeedKindStep(p) ==
    /\ pc[p] \in {"seedKindGenesis", "seedKindTest", "seedKindStandard"}
    /\ LET tag == SeedKindTag(pc[p])
           row == [ID |-> NewUUID(op[p].n, tag), ExternalID |-> tag,
                   Audit |-> loc[p].cur.adt]
           k == [ID |-> row.ID, ExternalID |-> row.ExternalID]
       IN
       /\ ~KindPendingByOther(p, tag)
       /\ \E st \in KindOutcomes(p, tag), rbFail \in Fails :
             LET e == createOrgKind(st)
                 w == IF ~st.fail /\ st.rows >= 1
                      THEN Append(tx[p].writes, [t |-> "insKind", row |-> row])
                      ELSE tx[p].writes
                 r == seedKindError([tx[p] EXCEPT !.writes = w], e, rbFail)
             IN
             IF e # NoErr
             THEN /\ tx' = [tx EXCEPT ![p] = r.tx]
                  /\ calls' = [calls EXCEPT ![p] =
                                 Append(@, Call("CreateOrgKind", WriteRes(st))) \o r.calls]
                  /\ SeedFail(p, r.err, e)
                  /\ UNCHANGED loc
             ELSE /\ tx' = [tx EXCEPT ![p].writes = w]
                  /\ calls' = [calls EXCEPT ![p] = Append(@, Call("CreateOrgKind", "ok"))]
                  /\ loc' = [loc EXCEPT ![p] =
                               IF tag = genesisOrgTypeString THEN [@ EXCEPT !.cur.o.Kind = k]
                               ELSE IF tag = "test" THEN [@ EXCEPT !.tk = k]
                               ELSE @]
                  /\ Goto(p, SeedKindNext(pc[p]))
                  /\ UNCHANGED out
    /\ UNCHANGED <<db, now, nextOp, minted, seeded, op, env>>

\* A row write of seedGenesis / seedTest through one of the write helpers.
SeedWrite(p, c, w, st, h, next) ==
    /\ tx' = [tx EXCEPT ![p] = h.tx]
    /\ calls' = [calls EXCEPT ![p] = Append(@, Call(c, WriteRes(st))) \o h.calls]
    /\ IF h.err # NoErr
       THEN SeedFail(p, h.err, h.det) /\ UNCHANGED loc
       ELSE /\ Goto(p, next)
            /\ UNCHANGED out
            /\ loc' = [loc EXCEPT ![p] =
                         IF next = "seedTest" THEN [@ EXCEPT !.g = loc[p].cur] ELSE @]

Pending(t, w, st) ==
    [t EXCEPT !.writes = IF ~st.fail /\ st.rows >= 1 THEN Append(@, w) ELSE @]

\* seedGenesis, lines 307-316; seedTest, lines 387-396
SeedOrgStep(p) ==
    /\ pc[p] = "seedOrg"
    /\ \E st \in WriteOutcomes, rbFail \in Fails :
          LET oa == [Org |-> loc[p].cur.o, SimpleAudit |-> NewSimpleAudit(loc[p].cur.adt)]
              w == [t |-> "insOrg", row |-> newCreateOrgParams(oa)]
          IN SeedWrite(p, "CreateOrg", w, st,
                       createOrgDB(Pending(tx[p], w, st), oa, st, rbFail), "seedApp")
    /\ UNCHANGED <<db, now, nextOp, minted, seeded, op, env>>

\* seedGenesis, lines 318-322; seedTest, lines 398-402
SeedAppStep(p) ==
    /\ pc[p] = "seedApp"
    /\ \E st \in WriteOutcomes, rbFail \in Fails :
          LET aa == [App |-> loc[p].cur.a, SimpleAudit |-> NewSimpleAudit(loc[p].cur.adt)]
              w == [t |-> "insApp", row |-> newCreateAppParams(aa)]
          IN SeedWrite(p, "CreateApp", w, st,
                       createAppDB(Pending(tx[p], w, st), st, rbFail), "seedUser")
    /\ UNCHANGED <<db, now, nextOp, minted, seeded, op, env>>

\* seedGenesis, lines 324-330; seedTest, lines 404-410
SeedUserStep(p) ==
    /\ pc[p] = "seedUser"
    /\ \E st \in WriteOutcomes, rbFail \in Fails :
          LET u == loc[p].cur.u
              w == [t |-> "insUser",
                    row |-> [ID |-> u.ID, OrgID |-> u.OrgID, Username |-> u.Username,
                             Audit |-> loc[p].cur.adt]]
          IN SeedWrite(p, "CreateUser", w, st,
                       createUserDB(Pending(tx[p], w, st), st, rbFail),
                       IF loc[p].cur.phase = "genesis" THEN "seedTest" ELSE "seedCommit")
    /\ UNCHANGED <<db, now, nextOp, minted, seeded, op, env>>

\* seedTest, lines 336-390
SeedTestBuild(p) ==
    /\ pc[p] = "seedTest"
    /\ \E keyFail \in Fails, rbFail \in Fails, m \in Readings :
          IF keyFail
          THEN SeedKeyFail(p, rbFail) /\ UNCHANGED <<loc, now>>
          ELSE /\ now' = m
               /\ loc' = [loc EXCEPT ![p].cur =
                             SeedEntities(op[p].n, "test", op[p].req, loc[p].tk, m)]
               /\ Goto(p, "seedOrg")
               /\ UNCHANGED <<tx, calls, out>>
    /\ UNCHANGED <<db, nextOp, minted, seeded, op, env>>

SeedBundle(s) ==
    [OrgResponse |-> newOrgResponse([Org |-> s.o, SimpleAudit |-> NewSimpleAudit(s.adt)], NoResp),
     AppResponse |-> [ExternalID |-> s.a.ExternalID, Name |-> s.a.Name]]

\* Seed, lines 201-222: no rollback follows a failed commit.
SeedCommit(p) ==
    /\ pc[p] = "seedCommit"
    /\ \E ok \in {~f : f \in Fails} :
          LET c == CommitTx(tx[p], ok) IN
          /\ tx' = [tx EXCEPT ![p] = c.tx]
          /\ db' = IF ok THEN View(p) ELSE db
          /\ minted' = IF ok /\ op[p].n > minted THEN op[p].n ELSE minted
          /\ seeded' = IF ok THEN seeded + 1 ELSE seeded
          /\ calls' = [calls EXCEPT ![p] = Append(@, Call("CommitTx", c.res))]
          /\ IF ok
             THEN Return(p, [resp |-> [GenesisResponse |-> SeedBundle(loc[p].g),
                                       TestResponse |-> SeedBundle(loc[p].cur)],
                             err |-> NoErr, det |-> NoErr])
             ELSE SeedFail(p, c.err, c.err)
    /\ UNCHANGED <<now, nextOp, op, loc, env>>

\* ------------------------------------------------------ OrgService.Update
\* The external IDs a caller may name: those of the Orgs in the store, and
\* one no Org ever had.
TargetIDs == {o.ExternalID : o \in db.orgs} \cup {NoSuchExtl}

\* The Org struct and the SimpleAudit hydrated from an org row and its kind.
orgOf(d, row) ==
    LET k == CHOOSE k \in d.kinds : k.ID = row.KindID IN
    [ID |-> row.ID, ExternalID |-> row.ExternalID, Name |-> row.Name,
     Description |-> row.Description, Kind |-> [ID |-> k.ID, ExternalID |-> k.ExternalID]]

orgAuditOf(d, row) ==
    [Org |-> orgOf(d, row),
     SimpleAudit |-> [Create |-> row.Create, Update |-> row.Update]]

\* findOrgByExternalIDWithAudit: pgx.ErrNoRows becomes NotExist, any other
\* error Database.
findOrgByExternalIDWithAudit(d, extlID, fail) ==
    LET rows == {o \in d.orgs : o.ExternalID = extlID} IN
    IF fail THEN [err |-> E("Database", NoErr), res |-> "err", oa |-> NoResp]
    ELSE IF rows = {} THEN [err |-> E("NotExist", NoErr), res |-> "norows", oa |-> NoResp]
    ELSE [err |-> NoErr, res |-> "ok", oa |-> orgAuditOf(d, CHOOSE o \in rows : TRUE)]

\* findOrgByExternalID: every error of the query comes back as Database.
findOrgByExternalID(d, extlID, fail) ==
    LET rows == {o \in d.orgs : o.ExternalID = extlID} IN
    IF fail THEN [err |-> E("Database", NoErr), res |-> "err", o |-> NoResp]
    ELSE IF rows = {} THEN [err |-> E("Database", NoErr), res |-> "norows", o |-> NoResp]
    ELSE [err |-> NoErr, res |-> "ok", o |-> orgOf(d, CHOOSE o \in rows : TRUE)]

\* Update, lines 216-221 (and Delete, lines 276-281): the error found is an
\* *errs.Error, never pgx.ErrNoRows itself, so it is wrapped as Database.
wrapFindError(e) == IF e = "pgx.ErrNoRows" THEN E("Validation", NoErr) ELSE E("Database", e)

\* The loaded Org with the request's name only, the description left as it was.
touch_NameOnly(oa, r, adt) ==
    [Org |-> [oa.Org EXCEPT !.Name = r.Text.Name],
     SimpleAudit |-> [oa.SimpleAudit EXCEPT !.Update = adt]]

\* Update, lines 222-236: the loaded Org with the request's fields and audit.
touch(oa, r, adt) ==
    [Org |-> [oa.Org EXCEPT !.Name = r.Text.Name, !.Description = r.Text.Description],
     SimpleAudit |-> [oa.SimpleAudit EXCEPT !.Update = adt]]

\* UpdateOrgParams carrying the audit the Org was created with.
UpdateOrgParams_CreateAudit(oa, adt) ==
    [t |-> "updOrg", ID |-> oa.Org.ID, Name |-> oa.Org.Name,
     Description |-> oa.Org.Description, Update |-> oa.SimpleAudit.Create]

\* Update, lines 229-236
UpdateOrgParams(oa, adt) ==
    [t |-> "updOrg", ID |-> oa.Org.ID, Name |-> oa.Org.Name,
     Description |-> oa.Org.Description, Update |-> adt]

\* The row-count check of Update left out: only a storage error is an error.
updateOrgCheck_ErrorOnly(st) ==
    IF st.fail THEN E("Database", NoErr) ELSE NoErr

\* The row-count check of Update rejecting only a count of 0.
updateOrgCheck_ZeroOnly(st) ==
    IF st.fail THEN E("Database", NoErr)
    ELSE IF st.rows = 0 THEN E("Database", NoErr)
    ELSE NoErr

\* Update, lines 238-248: the error for what UpdateOrg reported.
updateOrgCheck(st) ==
    IF st.fail THEN E("Database", NoErr)
    ELSE IF st.rows # 1 THEN E("Database", NoErr)
    ELSE NoErr

\* What a write to one row by its ID may report: no row is affected when the
\* transaction cannot see the row.
RowOutcomes(present) ==
    IF present THEN WriteOutcomes
    ELSE {st \in WriteOutcomes \cup {[fail |-> FALSE, rows |-> 0]} : st.fail \/ st.rows = 0}

UpdateOrgRequests == [ExternalID : TargetIDs, Text : OrgTexts]

CallUpdate(p) ==
    \E r \in UpdateOrgRequests, a \in Actors, ok \in {~f : f \in Fails} :
        Enter(p, "Update", r, [App |-> a.App, User |-> a.User, Moment |-> now], <<>>,
              NoErr, ok, "updateFind")

\* Update, lines 213-236
UpdateFind(p) ==
    /\ pc[p] = "updateFind"
    /\ \E fail \in Fails :
          LET f == findOrgByExternalIDWithAudit(View(p), op[p].req.ExternalID, fail) IN
          /\ Read(p, "FindOrgByExtlIDWithAudit", f.res)
          /\ IF f.err # NoErr
             THEN Fail(p, wrapFindError(f.err), f.err) /\ UNCHANGED loc
             ELSE /\ loc' = [loc EXCEPT ![p] = [oa |-> touch(f.oa, op[p].req, op[p].adt)]]
                  /\ Goto(p, "updateOrg")
                  /\ UNCHANGED out
    /\ UNCHANGED <<db, now, nextOp, minted, seeded, op, env>>

\* Update, lines 238-248
UpdateOrgStep(p) ==
    /\ pc[p] = "updateOrg"
    /\ ~LockedByOther(p, loc[p].oa.Org.ID)
    /\ \E st \in RowOutcomes(\E o \in View(p).orgs : o.ID = loc[p].oa.Org.ID) :
          LET e == updateOrgCheck(st) IN
          /\ Write(p, "UpdateOrg", UpdateOrgParams(loc[p].oa, op[p].adt), st)
          /\ IF e # NoErr THEN Fail(p, e, e) ELSE Goto(p, "updateCommit") /\ UNCHANGED out
    /\ UNCHANGED <<db, now, nextOp, minted, seeded, op, loc, env>>

\* Update, lines 250-256
UpdateCommit(p) ==
    /\ pc[p] = "updateCommit"
    /\ Commit(p, newOrgResponse(loc[p].oa, NoResp))

\* ------------------------------------------------------ OrgService.Delete
CallDelete(p) ==
    \E x \in TargetIDs, ok \in {~f : f \in Fails} :
        Enter(p, "Delete", [ExternalID |-> x], "none", <<>>, NoErr, ok, "deleteFind")

\* Delete, lines 273-281
DeleteFind(p) ==
    /\ pc[p] = "deleteFind"
    /\ \E fail \in Fails :
          LET f == findOrgByExternalID(View(p), op[p].req.ExternalID, fail) IN
          /\ Read(p, "FindOrgByExtlID", f.res)
          /\ IF f.err # NoErr
             THEN Fail(p, wrapFindError(f.err), f.err) /\ UNCHANGED loc
             ELSE /\ loc' = [loc EXCEPT ![p] = [o |-> f.o, dbApps |-> {}]]
                  /\ Goto(p, "deleteFindApps")
                  /\ UNCHANGED out
    /\ UNCHANGED <<db, now, nextOp, minted, seeded, op, env>>

\* Delete, lines 283-287
DeleteFindApps(p) ==
    /\ pc[p] = "deleteFindApps"
    /\ \E fail \in Fails :
          LET found == {a.ID : a \in {a \in View(p).apps : a.OrgID = loc[p].o.ID}} IN
          /\ Read(p, "FindAppsByOrg", IF fail THEN "err" ELSE "ok")
          /\ IF fail
             THEN Fail(p, E("Database", NoErr), "Database") /\ UNCHANGED loc
             ELSE /\ loc' = [loc EXCEPT ![p].dbApps = found]
                  /\ Goto(p, IF found = {} THEN "deleteOrg" ELSE "deleteApp")
                  /\ UNCHANGED out
    /\ UNCHANGED <<db, now, nextOp, minted, seeded, op, env>>

\* deleteAppTx: the error for what DeleteApp reported.
deleteAppTx(st) ==
    IF st.fail THEN E("Database", NoErr)
    ELSE IF st.rows # 1 THEN E("Database", NoErr)
    ELSE NoErr

\* The loop over dbApps left after its first round.
DeleteAppStep_FirstOnly(p) ==
    /\ pc[p] = "deleteApp"
    /\ \E a \in loc[p].dbApps :
          /\ ~LockedByOther(p, a)
          /\ \E st \in RowOutcomes(\E x \in View(p).apps : x.ID = a) :
                LET e == deleteAppTx(st) IN
                /\ Write(p, "DeleteApp", [t |-> "delApp", ID |-> a], st)
                /\ IF e # NoErr
                   THEN Fail(p, E("Database", e), e) /\ UNCHANGED loc
                   ELSE /\ loc' = [loc EXCEPT ![p].dbApps = @ \ {a}]
                        /\ Goto(p, "deleteOrg")
                        /\ UNCHANGED out
    /\ UNCHANGED <<db, now, nextOp, minted, seeded, op, env>>

\* Delete, lines 289-295: one round of the loop over dbApps.
DeleteAppStep(p) ==
    /\ pc[p] = "deleteApp"
    /\ \E a \in loc[p].dbApps :
          /\ ~LockedByOther(p, a)
          /\ \E st \in RowOutcomes(\E x \in View(p).apps : x.ID = a) :
                LET e == deleteAppTx(st) IN
                /\ Write(p, "DeleteApp", [t |-> "delApp", ID |-> a], st)
                /\ IF e # NoErr
                   THEN Fail(p, E("Database", e), e) /\ UNCHANGED loc
                   ELSE /\ loc' = [loc EXCEPT ![p].dbApps = @ \ {a}]
                        /\ Goto(p, IF loc[p].dbApps = {a} THEN "deleteOrg" ELSE "deleteApp")
                        /\ UNCHANGED out
    /\ UNCHANGED <<db, now, nextOp, minted, seeded, op, env>>

\* The row-count check of Delete left out: only a storage error is an error.
deleteOrgCheck_NoRowCheck(st) ==
    IF st.fail THEN E("Database", NoErr) ELSE NoErr

\* Delete going on to its commit whatever DeleteOrg reported.
deleteOrgCheck_ErrorIgnored(st) == NoErr

\* Delete, lines 297-305: the error for what DeleteOrg reported.
deleteOrgCheck(st) ==
    IF st.fail THEN E("Database", NoErr)
    ELSE IF st.rows # 1 THEN E("Database", NoErr)
    ELSE NoErr

DeleteOrgStep(p) ==
    /\ pc[p] = "deleteOrg"
    /\ ~LockedByOther(p, loc[p].o.ID)
    /\ \E st \in RowOutcomes(\E o \in View(p).orgs : o.ID = loc[p].o.ID) :
          LET e == deleteOrgCheck(st) IN
          /\ Write(p, "DeleteOrg", [t |-> "delOrg", ID |-> loc[p].o.ID], st)
          /\ IF e # NoErr THEN Fail(p, e, e) ELSE Goto(p, "deleteCommit") /\ UNCHANGED out
    /\ UNCHANGED <<db, now, nextOp, minted, seeded, op, loc, env>>

\* Delete, lines 307-318
DeleteCommit(p) ==
    /\ pc[p] = "deleteCommit"
    /\ Commit(p, [ExternalID |-> op[p].req.ExternalID, Deleted |-> TRUE])

\* --------------------------------- OrgService.FindAll, FindByExternalID
CallFindAll(p) ==
    \E ok \in {~f : f \in Fails} :
        Enter(p, "FindAll", "none", "none", <<>>, NoErr, ok, "findAll")

\* FindAll committing its transaction after the query.
FindAllQuery_Commits(p) ==
    /\ pc[p] = "findAll"
    /\ \E fail \in Fails :
          LET d == View(p)
              responses == {newOrgResponse(orgAuditOf(d, row), NoResp) : row \in d.orgs}
              c == CommitTx(tx[p], TRUE)
          IN
          /\ calls' = [calls EXCEPT ![p] =
                         IF fail THEN Append(@, Call("FindOrgsWithAudit", "err"))
                         ELSE @ \o <<Call("FindOrgsWithAudit", "ok"), Call("CommitTx", c.res)>>]
          /\ tx' = [tx EXCEPT ![p] = IF fail THEN @ ELSE c.tx]
          /\ Goto(p, "rollback")
          /\ out' = [out EXCEPT ![p] =
                       IF fail THEN [resp |-> NoResp, err |-> E("Database", NoErr), det |-> "Database"]
                       ELSE [resp |-> responses, err |-> NoErr, det |-> NoErr]]
    /\ UNCHANGED <<db, now, nextOp, minted, seeded, op, loc, env>>

\* FindAll, lines 335-396: "return responses, nil" without a commit.
FindAllQuery(p) ==
    /\ pc[p] = "findAll"
    /\ \E fail \in Fails :
          LET d == View(p)
              responses == {newOrgResponse(orgAuditOf(d, row), NoResp) : row \in d.orgs}
          IN
          /\ Read(p, "FindOrgsWithAudit", IF fail THEN "err" ELSE "ok")
          /\ Goto(p, "rollback")
          /\ out' = [out EXCEPT ![p] =
                       IF fail THEN [resp |-> NoResp, err |-> E("Database", NoErr), det |-> "Database"]
                       ELSE [resp |-> responses, err |-> NoErr, det |-> NoErr]]
    /\ UNCHANGED <<db, now, nextOp, minted, seeded, op, loc, env>>

CallFindByExternalID(p) ==
    \E x \in TargetIDs, ok \in {~f : f \in Fails} :
        Enter(p, "FindByExternalID", [ExternalID |-> x], "none", <<>>, NoErr, ok, "findByExternalID")

\* FindByExternalID, lines 413-419: "return newOrgResponse(...), nil" without a commit.
FindByExternalIDQuery(p) ==
    /\ pc[p] = "findByExternalID"
    /\ \E fail \in Fails :
          LET f == findOrgByExternalIDWithAudit(View(p), op[p].req.ExternalID, fail) IN
          /\ Read(p, "FindOrgByExtlIDWithAudit", f.res)
          /\ Goto(p, "rollback")
          /\ out' = [out EXCEPT ![p] =
                       IF f.err # NoErr THEN [resp |-> NoResp, err |-> f.err, det |-> f.err]
                       ELSE [resp |-> newOrgResponse(f.oa, NoResp), err |-> NoErr, det |-> NoErr]]
    /\ UNCHANGED <<db, now, nextOp, minted, seeded, op, loc, env>>

\* ------------------------------------------------------------- AppService
\* An operation of another service that ran to its end in one transaction.
Ran(p, name, req, d) ==
    /\ CanStart(p)
    /\ op' = [op EXCEPT ![p] = [name |-> name, n |-> FreshN(p), req |-> req, adt |-> "none",
                               pre |-> db]]
    /\ nextOp' = nextOp + 1
    /\ db' = d
    /\ minted' = FreshN(p)
    /\ pc' = [pc EXCEPT ![p] = "done"]
    /\ out' = [out EXCEPT ![p] = NoOut]
    /\ tx' = [tx EXCEPT ![p] = NoTx]
    /\ loc' = [loc EXCEPT ![p] = <<>>]
    /\ calls' = [calls EXCEPT ![p] = <<>>]
    /\ UNCHANGED <<now, seeded, env>>

\* An App created independently of its Org's creation, for an Org that exists.
AppCreate(p) ==
    \E o \in db.orgs :
        LET n == FreshN(p)
            row == [ID |-> NewUUID(n, "app"), ExternalID |-> NewID(n, "app"),
                    OrgID |-> o.ID, Name |-> "app",
                    Audit |-> [App |-> "appA", User |-> "userA", Moment |-> now]]
        IN Ran(p, "AppCreate", [OrgID |-> o.ID], ApplyWrite(db, [t |-> "insApp", row |-> row]))

\* An App deleted on its own.
AppDelete(p) ==
    \E a \in db.apps :
        Ran(p, "AppDelete", [ID |-> a.ID], ApplyWrite(db, [t |-> "delApp", ID |-> a.ID]))

\* ---------------------------------------------------------------- system
Next ==
    \E p \in Procs :
          \/ CallCreate(p)
          \/ CreateFindKind(p)
          \/ CreateOrgStep(p)
          \/ CreateAppStep(p)
          \/ CreateCommit(p)
          \/ DeferredRollback(p)
          \/ CallSeed(p)
          \/ SeedGenesisBuild(p)
          \/ SeedKindStep(p)
          \/ SeedOrgStep(p)
          \/ SeedAppStep(p)
          \/ SeedUserStep(p)
          \/ SeedTestBuild(p)
          \/ SeedCommit(p)
          \/ CallUpdate(p)
          \/ UpdateFind(p)
          \/ UpdateOrgStep(p)
          \/ UpdateCommit(p)
          \/ CallDelete(p)
          \/ DeleteFind(p)
          \/ DeleteFindApps(p)
          \/ DeleteAppStep(p)
          \/ DeleteOrgStep(p)
          \/ DeleteCommit(p)
          \/ CallFindAll(p)
          \/ FindAllQuery(p)
          \/ CallFindByExternalID(p)
          \/ FindByExternalIDQuery(p)

\* The operations above together with those of the App service, through
\* which an Org comes to own any number of Apps.
NextApps ==
    \/ Next
    \/ \E p \in Procs : AppCreate(p)
    \/ \E p \in Procs : AppDelete(p)

Spec == Init /\ [][Next]_vars

SpecConc == InitConc /\ [][Next]_vars

SpecApps == Init /\ [][NextApps]_vars

\* ------------------------------------------------------------ observations
Done(p) == pc[p] = "done"
Is(p, name) == Done(p) /\ op[p].name = name
Issued(p, c) == \E i \in DOMAIN calls[p] : calls[p][i].c = c
Got(p, c, res) == \E i \in DOMAIN calls[p] : calls[p][i] = Call(c, res)
Times(p, c) == Cardinality({i \in DOMAIN calls[p] : calls[p][i].c = c})
Opened(p) == Got(p, "BeginTx", "ok")
RbFailed(p) == Got(p, "RollbackTx", "err")

WriteCalls == {"CreateOrgKind", "CreateOrg", "CreateApp", "CreateUser",
               "UpdateOrg", "DeleteApp", "DeleteOrg"}
NoWriteIssued(p) == \A i \in DOMAIN calls[p] : calls[p][i].c \notin WriteCalls
WriteFailed(p) ==
    \E i \in DOMAIN calls[p] : calls[p][i].c \in WriteCalls /\ calls[p][i].res # "ok"

\* Some row of the store was minted by operation number n.
MintedIn(d, n) ==
    \/ \E r \in d.kinds : r.ID[1] = n
    \/ \E r \in d.orgs : r.ID[1] = n
    \/ \E r \in d.apps : r.ID[1] = n
    \/ \E r \in d.users : r.ID[1] = n

GenesisOrgs(d) ==
    {o \in d.orgs : \E k \in d.kinds :
        k.ID = o.KindID /\ k.ExternalID = genesisOrgTypeString}
GenesisPresent(d) ==
    \/ \E k \in d.kinds : k.ExternalID = genesisOrgTypeString
    \/ GenesisOrgs(d) # {}
GuardFailed(p) ==
    Got(p, "FindOrgKindByExtlID", "err") \/ Got(p, "FindOrgByKindExtlID", "err")

\* ------------------------------------------------------------------ claims
\* C1: when a write step of Create, Update, Delete or Seed fails (a storage
\* error or a row count other than 1), the operation returns with its
\* transaction not committed and the committed store exactly as it was when
\* the operation was called: no row of the operation is in it, and a lookup
\* of the Org a failed Create tried to insert finds nothing (NotExist).
C1_Atomicity ==
    \A p \in Procs :
        (Done(p) /\ op[p].name \in {"Create", "Update", "Delete", "Seed"} /\ WriteFailed(p)) =>
            /\ tx[p].state = "aborted"
            /\ db = op[p].pre
            /\ ~MintedIn(db, op[p].n)
            /\ op[p].name = "Create" =>
                  findOrgByExternalIDWithAudit(db, NewID(op[p].n, "org"), FALSE).err = "NotExist"

\* A Create whose Org insert succeeded and whose App insert then failed has returned.
C1_Witness ==
    \E p \in Procs :
        /\ Is(p, "Create") /\ Got(p, "CreateOrg", "ok") /\ WriteFailed(p)
        /\ out[p].err # NoErr

\* C2 (as stated): on every exit path of an operation that opened a
\* transaction, exactly one of CommitTx / RollbackTx was invoked on it.
C2_ExactlyOneInvoked ==
    \A p \in Procs :
        (Done(p) /\ Opened(p)) => Times(p, "CommitTx") + Times(p, "RollbackTx") = 1

\* The CommitTx / RollbackTx calls of p that found the transaction open.
Ending(p) ==
    {i \in DOMAIN calls[p] :
        calls[p][i].c \in {"CommitTx", "RollbackTx"} /\ calls[p][i].res # "closed"}

\* C2 (amended): an opened transaction is ended exactly once on every exit
\* path, by the first CommitTx or RollbackTx invoked on it, and never stays
\* open: each of the two is invoked at most once and at least one is; when
\* both are (Create, Update, Delete once they reach CommitTx) the CommitTx
\* comes first and the deferred RollbackTx finds the transaction closed.
C2_EndedOnce ==
    \A p \in Procs :
        /\ Cardinality(Ending(p)) <= 1
        /\ Times(p, "CommitTx") <= 1
        /\ Times(p, "RollbackTx") <= 1
        /\ (Done(p) /\ Opened(p)) =>
              /\ Cardinality(Ending(p)) = 1
              /\ tx[p].state \in {"committed", "aborted"}
              /\ (Issued(p, "CommitTx") /\ Issued(p, "RollbackTx")) =>
                    /\ op[p].name \in {"Create", "Update", "Delete"}
                    /\ calls[p][Len(calls[p])] = Call("RollbackTx", "closed")
                    /\ calls[p][Len(calls[p]) - 1].c = "CommitTx"

\* A Create has returned after its commit and the deferred rollback.
C2_Witness ==
    \E p \in Procs :
        /\ Is(p, "Create") /\ Got(p, "CommitTx", "ok") /\ Got(p, "RollbackTx", "closed")
        /\ out[p].err = NoErr

\* C3 (as stated): a Seed called when the genesis OrgKind or a genesis Org
\* exists fails with Validation, never calls BeginTx and writes nothing.
C3_RefusedValidation ==
    \A p \in Procs :
        (Is(p, "Seed") /\ GenesisPresent(op[p].pre)) =>
            /\ out[p].err = "Validation"
            /\ ~Issued(p, "BeginTx")
            /\ NoWriteIssued(p)
            /\ db = op[p].pre

\* C3 (amended): such a Seed fails, with Validation when both queries of
\* the guard succeed and with Database when one of them fails; it never
\* calls BeginTx and writes nothing.
C3_Refused ==
    \A p \in Procs :
        (Is(p, "Seed") /\ GenesisPresent(op[p].pre)) =>
            /\ out[p].err = IF GuardFailed(p) THEN "Database" ELSE "Validation"
            /\ ~Issued(p, "BeginTx")
            /\ tx[p].state = "none"
            /\ NoWriteIssued(p)
            /\ db = op[p].pre

\* A second Seed has been refused with Validation.
C3_Witness ==
    \E p \in Procs :
        /\ Is(p, "Seed") /\ GenesisPresent(op[p].pre)
        /\ out[p].err = "Validation"

C5_RefusedForeverValidation ==
    \A p \in Procs :
        (Is(p, "Seed") /\ seeded >= 1 /\ ~Got(p, "CommitTx", "ok")) =>
            out[p].err = "Validation"

\* C5 (amended): once a Seed has committed, no Seed commits again, whatever
\* Create, Update, Delete and Find calls come between: the guard refuses in
\* every later store state, and every further Seed call fails before BeginTx,
\* with Validation (or Database when a query of the guard fails).
C5_RefusedForever ==
    /\ seeded <= 1
    /\ seeded = 1 => genesisHasOccurred(db, FALSE, FALSE).err = "Validation"
    /\ \A p \in Procs :
          (Is(p, "Seed") /\ seeded >= 1 /\ ~Got(p, "CommitTx", "ok")) =>
              /\ out[p].err = IF GuardFailed(p) THEN "Database" ELSE "Validation"
              /\ ~Issued(p, "BeginTx")
              /\ db = op[p].pre

\* A Seed has been refused after the genesis Org was deleted.
C5_Witness ==
    \E p \in Procs :
        /\ Is(p, "Seed") /\ seeded = 1 /\ out[p].err = "Validation"
        /\ GenesisOrgs(db) = {}

\* C6: at most one Org has the genesis kind, and it is the one Seed inserted.
C6_OneGenesisOrg ==
    /\ Cardinality(GenesisOrgs(db)) <= 1
    /\ \A o \in GenesisOrgs(db) : o.ID[2] = "genesisOrg"

\* The writes the row-count guard of C7 is about.
GuardedRowCount(p) ==
    \/ op[p].name = "Create" /\ Got(p, "CreateOrg", "rows")
    \/ op[p].name = "Update" /\ Got(p, "UpdateOrg", "rows")
    \/ op[p].name = "Delete" /\ Got(p, "DeleteOrg", "rows")
    \/ op[p].name = "Seed" /\ Got(p, "CreateOrgKind", "rows")

\* C7: when the Org insert of Create, the Org update of Update, the Org
\* delete of Delete or an OrgKind insert reports a row count other than 1,
\* the operation returns a Database error, never calls CommitTx, and its
\* transaction is rolled back.
C7_RowCountGuard ==
    \A p \in Procs :
        (Done(p) /\ GuardedRowCount(p)) =>
            /\ out[p].err = "Database"
            /\ ~Issued(p, "CommitTx")
            /\ Issued(p, "RollbackTx")
            /\ tx[p].state = "aborted"

\* An Update whose write reported a row count other than 1 has returned.
C7_Witness ==
    \E p \in Procs : Is(p, "Update") /\ Got(p, "UpdateOrg", "rows")

\* C8: an operation that fails after its transaction was opened returns the
\* error with the kind it had where it was detected, unless the rollback
\* itself failed, and then a Database error; after a successful commit it
\* returns no error.
C8_ErrorPreserved ==
    \A p \in Procs :
        (Done(p) /\ Opened(p)) =>
            IF Got(p, "CommitTx", "ok") THEN out[p].err = NoErr
            ELSE \/ out[p].err = out[p].det
                 \/ RbFailed(p) /\ out[p].err = "Database"

\* C9: an Org row enters the store with Create audit = Update audit; a row
\* that stays keeps its Create audit in every step; a row changes only in
\* the commit of an Update, and after that commit the Update audit of the
\* Org it names is the audit the Update was called with.
C9_AuditProvenance ==
    [][ /\ \A o2 \in db'.orgs :
              LET old == {o \in db.orgs : o.ID = o2.ID} IN
              IF old = {} THEN o2.Create = o2.Update
              ELSE \A o \in old :
                      /\ o2.Create = o.Create
                      /\ o2 # o => \E p \in Procs :
                                      pc[p] = "updateCommit" /\ o2.Update = op[p].adt
        /\ \A p \in Procs :
              (pc[p] = "updateCommit" /\ tx'[p].state = "committed") =>
                  \A o2 \in db'.orgs :
                      o2.ExternalID = op[p].req.ExternalID => o2.Update = op[p].adt
      ]_vars

\* An Update has committed and the Org's Update audit differs from its Create audit.
C9_Witness ==
    \E p \in Procs :
        /\ Is(p, "Update") /\ out[p].err = NoErr
        /\ \E o \in db.orgs :
              /\ o.ExternalID = op[p].req.ExternalID
              /\ o.Update = op[p].adt
              /\ o.Create # o.Update

\* C10: a Create naming a Kind no OrgKind row has fails with NotExist, before
\* any write is issued, and commits nothing.
C10_MissingKindNotExist ==
    \A p \in Procs :
        (Is(p, "Create") /\ Got(p, "FindOrgKindByExtlID", "norows")) =>
            /\ out[p].err = "NotExist"
            /\ NoWriteIssued(p)
            /\ ~Issued(p, "CommitTx")
            /\ db = op[p].pre

\* C11: an Update naming an external ID no Org has fails with NotExist
\* (the rollback having succeeded).
C11_UpdateMissingNotExist ==
    \A p \in Procs :
        (Is(p, "Update") /\ Got(p, "FindOrgByExtlIDWithAudit", "norows") /\ ~RbFailed(p)) =>
            out[p].err = "NotExist"

\* C12: an Update naming an external ID no Org has fails with Validation,
\* never issues the UpdateOrg write and leaves the store unchanged.
C12_UpdateMissingValidation ==
    \A p \in Procs :
        (Is(p, "Update") /\ Got(p, "FindOrgByExtlIDWithAudit", "norows") /\ ~RbFailed(p)) =>
            /\ out[p].err = "Validation"
            /\ ~Issued(p, "UpdateOrg")
            /\ db = op[p].pre

\* C13: a Delete naming an external ID no Org has fails with NotExist, issues
\* no App delete and no Org delete, and returns DeleteResponse{Deleted: false}.
C13_DeleteMissingNotExist ==
    \A p \in Procs :
        (Is(p, "Delete") /\ Got(p, "FindOrgByExtlID", "norows") /\ ~RbFailed(p)) =>
            /\ out[p].err = "NotExist"
            /\ ~Issued(p, "DeleteApp")
            /\ ~Issued(p, "DeleteOrg")
            /\ out[p].resp.Deleted = FALSE

\* The Apps the Org named by p's operation owned when the operation was called.
OwnedBefore(p) ==
    {a \in op[p].pre.apps :
        \E o \in op[p].pre.orgs : o.ExternalID = op[p].req.ExternalID /\ a.OrgID = o.ID}

\* The external IDs FindAll lists on store d.
Listed(d) == {newOrgResponse(orgAuditOf(d, row), NoResp).ExternalID : row \in d.orgs}

\* C14: in a Delete every App delete is issued before the Org delete, and
\* the Org delete is never issued once an App delete has failed; after a
\* committed Delete of an Org that owned n Apps, n App deletes were issued,
\* no App row of that Org remains and FindAll no longer lists the Org.
C14_DeleteCascade ==
    \A p \in Procs :
        op[p].name = "Delete" =>
            /\ \A i, j \in DOMAIN calls[p] :
                  (calls[p][i].c = "DeleteApp" /\ calls[p][j].c = "DeleteOrg") => i < j
            /\ (\E i \in DOMAIN calls[p] :
                    calls[p][i].c = "DeleteApp" /\ calls[p][i].res # "ok")
                  => ~Issued(p, "DeleteOrg")
            /\ (Done(p) /\ Got(p, "CommitTx", "ok")) =>
                  /\ Times(p, "DeleteApp") = Cardinality(OwnedBefore(p))
                  /\ Times(p, "DeleteOrg") = 1
                  /\ \A a \in OwnedBefore(p) : a \notin db.apps
                  /\ ~\E a \in db.apps : a.OrgID = loc[p].o.ID
                  /\ op[p].req.ExternalID \notin Listed(db)
                  /\ op[p].req.ExternalID \in Listed(op[p].pre)

\* A Delete of an Org owning two Apps has committed.
C14_Witness ==
    \E p \in Procs :
        /\ Is(p, "Delete") /\ Got(p, "CommitTx", "ok")
        /\ Cardinality(OwnedBefore(p)) = 2

\* The read of a FindAll or FindByExternalID succeeded.
ReadSucceeded(p) ==
    \/ op[p].name = "FindAll" /\ Got(p, "FindOrgsWithAudit", "ok")
    \/ op[p].name = "FindByExternalID" /\ Got(p, "FindOrgByExtlIDWithAudit", "ok")

\* C15 (as stated): FindAll and FindByExternalID never mutate the store, and
\* after a successful read they end their transaction with CommitTx, without
\* invoking RollbackTx.
C15_ReadsCommit ==
    \A p \in Procs :
        (Done(p) /\ ReadSucceeded(p)) =>
            /\ db = op[p].pre
            /\ Issued(p, "CommitTx")
            /\ ~Issued(p, "RollbackTx")

\* C15 (amended): FindAll and FindByExternalID never mutate the store, issue
\* no write and never call CommitTx; once BeginTx succeeded they end their
\* transaction with the deferred RollbackTx, after a successful read too; a
\* successful read returns its result, with no error when that rollback
\* succeeds and with a Database error when it fails.
C15_ReadsRollBack ==
    \A p \in Procs :
        op[p].name \in {"FindAll", "FindByExternalID"} =>
            /\ db = op[p].pre
            /\ NoWriteIssued(p)
            /\ tx[p].writes = <<>>
            /\ ~Issued(p, "CommitTx")
            /\ (Done(p) /\ Opened(p)) =>
                  /\ calls[p][Len(calls[p])].c = "RollbackTx"
                  /\ calls[p][Len(calls[p])].res \in {"ok", "err"}
                  /\ tx[p].state = "aborted"
            /\ (Done(p) /\ ReadSucceeded(p)) =>
                  /\ out[p].err = IF RbFailed(p) THEN "Database" ELSE NoErr
                  /\ IF op[p].name = "FindAll"
                     THEN {r.ExternalID : r \in out[p].resp} = Listed(db)
                     ELSE out[p].resp.ExternalID = op[p].req.ExternalID

\* A FindAll that listed at least one Org has returned after its rollback.
C15_Witness ==
    \E p \in Procs :
        /\ Is(p, "FindAll") /\ ReadSucceeded(p) /\ Got(p, "RollbackTx", "ok")
        /\ out[p].err = NoErr
        /\ out[p].resp # {}

\* The bundle Seed returned describes the Org row o and its App row a.
Describes(b, o, a) ==
    /\ b.OrgResponse.ExternalID = o.ExternalID
    /\ b.OrgResponse.Name = o.Name
    /\ b.OrgResponse.KindExternalID = o.Name
    /\ b.AppResponse.ExternalID = a.ExternalID
    /\ b.AppResponse.Name = a.Name

\* C16: a Seed that succeeds on the empty store has committed exactly the
\* OrgKinds genesis, test and standard, exactly the Orgs "genesis" (of kind
\* genesis) and "test" (of kind test), one App per Org ("WOPR", "test"), one
\* User per Org with the trimmed seed username, and returns the two bundles
\* that describe those rows.
C16_SeedPostcondition ==
    \A p \in Procs :
        (Is(p, "Seed") /\ out[p].err = NoErr /\ op[p].pre = EmptyDB) =>
            /\ Cardinality(db.kinds) = 3
            /\ {k.ExternalID : k \in db.kinds} = {genesisOrgTypeString, "test", "standard"}
            /\ Cardinality(db.orgs) = 2
            /\ {o.Name : o \in db.orgs} = {"genesis", "test"}
            /\ \A o \in db.orgs :
                  /\ \E k \in db.kinds : k.ID = o.KindID /\ k.ExternalID = o.Name
                  /\ Cardinality({a \in db.apps : a.OrgID = o.ID}) = 1
                  /\ \A a \in db.apps :
                        a.OrgID = o.ID =>
                            /\ a.Name = (IF o.Name = "genesis" THEN "WOPR" ELSE "test")
                            /\ Describes(IF o.Name = "genesis"
                                         THEN out[p].resp.GenesisResponse
                                         ELSE out[p].resp.TestResponse, o, a)
                  /\ Cardinality({u \in db.users : u.OrgID = o.ID}) = 1
            /\ Cardinality(db.apps) = 2
            /\ Cardinality(db.users) = 2
            /\ \A u \in db.users :
                  /\ u.Username = TrimSpace(op[p].req.SeedUsername)
                  /\ u.Username # <<>> => (Head(u.Username) # " " /\ u.Username[Len(u.Username)] # " ")

\* A Seed given a username with blanks around it has succeeded on the empty store.
C16_Witness ==
    \E p \in Procs :
        /\ Is(p, "Seed") /\ out[p].err = NoErr /\ op[p].pre = EmptyDB
        /\ op[p].req.SeedUsername # TrimSpace(op[p].req.SeedUsername)
        /\ Cardinality(db.users) = 2

\* Every caller is in a Seed that was called on the empty store.
SeedRace ==
    \A p \in Procs : op[p].name = "Seed" /\ op[p].pre = EmptyDB

\* C17: of two concurrent Seed calls on the empty store that both passed the
\* guard, at most one commits; the other fails with a Database error at its
\* insert of the "genesis" OrgKind and leaves no row, and the committed
\* store never holds two genesis OrgKinds or two genesis Orgs.
C17_BootstrapRace ==
    SeedRace =>
        /\ Cardinality({p \in Procs : Got(p, "CommitTx", "ok")}) <= 1
        /\ Cardinality({k \in db.kinds : k.ExternalID = genesisOrgTypeString}) <= 1
        /\ Cardinality(GenesisOrgs(db)) <= 1
        /\ \A p \in Procs :
              (Done(p) /\ Opened(p) /\ ~Got(p, "CommitTx", "ok")) =>
                  /\ out[p].err = "Database"
                  /\ calls[p][Len(calls[p]) - 1] = Call("CreateOrgKind", "err")
                  /\ Times(p, "CreateOrgKind") = 1
                  /\ tx[p].state = "aborted"
                  /\ ~MintedIn(db, op[p].n)
                  /\ \E q \in Procs \ {p} : Got(q, "CommitTx", "ok")

\* Two Seeds passed the guard on the empty store; one committed and the
\* other has failed.
C17_Witness ==
    /\ SeedRace
    /\ \A p \in Procs : Done(p) /\ Opened(p)
    /\ \E p, q \in Procs : out[p].err = NoErr /\ out[q].err = "Database"

\* No storage call of p's operation failed or reported a wrong row count.
NoFault(p) == \A i \in DOMAIN calls[p] : calls[p][i].res \in {"ok", "closed"}

\* C18: a valid Create that bundles no App (empty App request), naming a
\* Kind that exists, succeeds when no storage call fails: it commits one Org
\* row and no App row and returns a response without an App.
C18_AppOptional ==
    \A p \in Procs :
        (/\ Is(p, "Create") /\ ~op[p].req.HasApp
         /\ Validate(op[p].req) = NoErr
         /\ \E k \in op[p].pre.kinds : k.ExternalID = op[p].req.Kind
         /\ NoFault(p)) =>
            /\ out[p].err = NoErr
            /\ \E o \in db.orgs : o.ID = NewUUID(op[p].n, "org")
            /\ ~\E a \in db.apps : a.ID[1] = op[p].n
            /\ out[p].resp.App = NoResp

\* The rows of one Seed in the order they are to be written.
SeedOrder ==
    <<"genesis", "test", "standard", "genesisOrg", "genesisApp", "genesisUser",
      "testOrg", "testApp", "testUser">>
WrittenBy(p) ==
    [i \in DOMAIN tx[p].writes |->
        IF tx[p].writes[i].t = "insKind" THEN tx[p].writes[i].row.ExternalID
        ELSE tx[p].writes[i].row.ID[2]]

\* The state of the bootstrap p runs, read off its transaction.
SeedState(p) ==
    IF tx[p].state = "committed" THEN "Committed"
    ELSE IF tx[p].state = "aborted" THEN "Aborted"
    ELSE IF Len(tx[p].writes) < 3 THEN "NotStarted"
    ELSE IF Len(tx[p].writes) < 6 THEN "KindsSeeded"
    ELSE IF Len(tx[p].writes) < 9 THEN "GenesisEntitiesWritten"
    ELSE "TestEntitiesWritten"
SeedSuccessor(st) ==
    CASE st = "NotStarted" -> "KindsSeeded"
      [] st = "KindsSeeded" -> "GenesisEntitiesWritten"
      [] st = "GenesisEntitiesWritten" -> "TestEntitiesWritten"
      [] st = "TestEntitiesWritten" -> "Committed"
      [] OTHER -> st
InSeedTx(p) == op[p].name = "Seed" /\ Opened(p)

\* C19: within the transaction of one Seed the rows are written in the order
\* OrgKinds genesis, test, standard, then genesis Org, App, User, then test
\* Org, App, User, and CommitTx is called only after all of them; the
\* bootstrap starts in NotStarted, every step leaves its state as it is,
\* moves it to the next state of NotStarted -> KindsSeeded ->
\* GenesisEntitiesWritten -> TestEntitiesWritten -> Committed, or moves it
\* from a non-terminal state to Aborted; Committed and Aborted are never left.
C19_SeedStateSequence ==
    /\ [](\A p \in Procs :
            InSeedTx(p) =>
                /\ Len(tx[p].writes) <= Len(SeedOrder)
                /\ WrittenBy(p) = SubSeq(SeedOrder, 1, Len(tx[p].writes))
                /\ Issued(p, "CommitTx") =>
                      Cardinality({i \in DOMAIN calls[p] :
                          calls[p][i].c \in WriteCalls /\ calls[p][i].res = "ok"}) = Len(SeedOrder)
                /\ Done(p) => SeedState(p) \in {"Committed", "Aborted"})
    /\ [][\A p \in Procs :
            /\ (~Running(p) /\ Running(p)' /\ InSeedTx(p)') => SeedState(p)' = "NotStarted"
            /\ (Running(p) /\ InSeedTx(p)) =>
                  /\ InSeedTx(p)'
                  /\ \/ SeedState(p)' = SeedState(p)
                     \/ SeedState(p)' = SeedSuccessor(SeedState(p))
                     \/ /\ SeedState(p) \notin {"Committed", "Aborted"}
                        /\ SeedState(p)' = "Aborted"
            /\ (~Running(p) /\ ~Running(p)' /\ InSeedTx(p) /\ InSeedTx(p)') =>
                  SeedState(p)' = SeedState(p)
      ]_vars

\* A bootstrap has reached Committed.
C19_Witness ==
    \E p \in Procs : InSeedTx(p) /\ Done(p) /\ SeedState(p) = "Committed"

\* ---- C20
\* Every Org row of the store d names an OrgKind row of d, and every App row
\* of d names an Org row of d.
Referential(d) ==
    /\ \A o \in d.orgs : \E k \in d.kinds : k.ID = o.KindID
    /\ \A a \in d.apps : \E o \in d.orgs : o.ID = a.OrgID

\* The number of p's calls of c, up to the i-th call, that reported res.
Before(p, i, c, res) ==
    Cardinality({j \in 1 .. i : calls[p][j] = Call(c, res)})

\* C20: the committed store, and the store as every open transaction sees it,
\* hold no Org row without its OrgKind row and no App row without its Org row.
\* In Create and Seed every App insert issued follows an Org insert of its own
\* that reported exactly one row, no Org insert follows an Org or App insert
\* that failed, and the Org handed to createOrgTx carries a Kind whose ID is
\* not nil and names an OrgKind row the transaction sees; createOrgTx returns
\* an error for a nil Kind ID whatever the store would have reported.
C20_ReferentialOrdering ==
    /\ Referential(db)
    /\ \A p \in Procs :
          /\ tx[p].state = "open" => Referential(View(p))
          /\ op[p].name \in {"Create", "Seed"} =>
                /\ \A i \in DOMAIN calls[p] :
                      /\ calls[p][i].c = "CreateApp" =>
                            /\ i > 1
                            /\ calls[p][i - 1] = Call("CreateOrg", "ok")
                      /\ calls[p][i].c = "CreateOrg" =>
                            /\ Before(p, i - 1, "CreateOrg", "ok") = Before(p, i - 1, "CreateApp", "ok")
                            /\ \A j \in 1 .. (i - 1) :
                                  calls[p][j].c \in WriteCalls => calls[p][j].res = "ok"
          /\ pc[p] = "createOrg" =>
                /\ loc[p].oa.Org.Kind.ID # Nil
                /\ \E k \in View(p).kinds : k.ID = loc[p].oa.Org.Kind.ID
          /\ pc[p] = "seedOrg" =>
                /\ loc[p].cur.o.Kind.ID # Nil
                /\ \E k \in View(p).kinds : k.ID = loc[p].cur.o.Kind.ID
          /\ (op[p].name = "Create" /\ Issued(p, "CreateOrg")) =>
                loc[p].oa.Org.Kind.ID # Nil
    /\ \A st \in WriteOutcomes :
          createOrgTx([Org |-> [Kind |-> NilKind]], st) # NoErr

\* A Create, its transaction still open, has inserted its Org and then its
\* App: both rows are seen inside the transaction and neither outside it.
C20_Witness ==
    \E p \in Procs :
        /\ op[p].name = "Create"
        /\ tx[p].state = "open"
        /\ Got(p, "CreateOrg", "ok")
        /\ Got(p, "CreateApp", "ok")
        /\ \E a \in View(p).apps : a.OrgID = loc[p].oa.Org.ID /\ a \notin db.apps
        /\ \E o \in View(p).orgs : o.ID = loc[p].oa.Org.ID /\ o \notin db.orgs

\* ---- C21
\* The audit moments carried by the rows of d that operation number n minted.
Moments(d, n) ==
    {r.Audit.Moment : r \in {k \in d.kinds : k.ID[1] = n}}
    \cup {r.Create.Moment : r \in {o \in d.orgs : o.ID[1] = n}}
    \cup {r.Update.Moment : r \in {o \in d.orgs : o.ID[1] = n}}
    \cup {r.Audit.Moment : r \in {a \in d.apps : a.ID[1] = n}}
    \cup {r.Audit.Moment : r \in {u \in d.users : u.ID[1] = n}}

\* C21: all rows one committed Seed wrote (the three OrgKinds, the genesis and
\* the test Org, App and User) carry one audit moment, and so do the Org and
\* the App one committed Create wrote, however the clock moves between the
\* writes.
C21_SingleAuditMoment ==
    \A p \in Procs :
        (/\ Done(p)
         /\ op[p].name \in {"Seed", "Create"}
         /\ Got(p, "CommitTx", "ok")) =>
            Cardinality(Moments(db, op[p].n)) = 1

\* ---- C22
\* The Org p's Update loaded is no longer in the committed store.
LoadedGone(p) == \A o \in db.orgs : o.ID # loc[p].oa.Org.ID

\* p's Update wrote to an Org no row of which was left.
WroteToNone(p) == op[p].name = "Update" /\ Got(p, "UpdateOrg", "rows")

\* C22: when the Org an Update has loaded is deleted by a Delete that commits
\* before the Update's write, the write affects no row: the Update keeps
\* nothing pending, commits nothing, returns no response and a Database error
\* once its transaction is rolled back, and the Org stays out of the
\* committed store, neither resurrected nor partly updated.
C22_DeleteBeforeUpdateWrite ==
    /\ [][\A p \in Procs :
            (/\ pc[p] = "updateOrg"
             /\ pc[p]' # "updateOrg"
             /\ LoadedGone(p)) =>
                /\ calls[p]' = Append(calls[p], Call("UpdateOrg", "rows"))
                /\ tx[p]' = tx[p]
                /\ tx[p].writes = <<>>
                /\ pc[p]' = "rollback"
                /\ out[p]' = [resp |-> NoResp, err |-> "Database", det |-> "Database"]
                /\ db' = db
         ]_vars
    /\ [](\A p \in Procs :
            WroteToNone(p) =>
                /\ LoadedGone(p)
                /\ ~Issued(p, "CommitTx")
                /\ Done(p) =>
                      /\ out[p].resp = NoResp
                      /\ out[p].err = "Database"
                      /\ calls[p][Len(calls[p])] = Call("RollbackTx", "ok")
                      /\ tx[p].state = "aborted")

\* An Update found its Org, a concurrent Delete of that Org committed, and
\* the Update then wrote and returned.
C22_Witness ==
    \E p \in Procs, q \in Procs :
        /\ p # q
        /\ Is(p, "Update")
        /\ Got(p, "FindOrgByExtlIDWithAudit", "ok")
        /\ Got(p, "UpdateOrg", "rows")
        /\ op[q].name = "Delete"
        /\ op[q].n > op[p].n
        /\ Got(q, "CommitTx", "ok")
        /\ loc[q].o.ID = loc[p].oa.Org.ID

\* ---- C23
\* p's Update committed.
Updated(p) == Is(p, "Update") /\ Got(p, "CommitTx", "ok")

\* The store d with the name, the description and the Update audit of its Org
\* x replaced, and nothing else.
Retouched(d, x, r, adt) ==
    [d EXCEPT !.orgs = (@ \ {x}) \cup {[x EXCEPT !.Name = r.Text.Name,
                                                 !.Description = r.Text.Description,
                                                 !.Update = adt]}]

\* C23: a successful Update of Org X leaves the store as it was when the
\* Update was called but for X's name, description and Update audit, which
\* are the request's and the caller's: X's internal ID, external ID, Kind and
\* Create audit, every other Org and every App, User and OrgKind row are
\* unchanged.
C23_UpdateFrame ==
    \A p \in Procs :
        Updated(p) =>
            /\ out[p].err = NoErr
            /\ \E x \in op[p].pre.orgs :
                  /\ x.ExternalID = op[p].req.ExternalID
                  /\ db = Retouched(op[p].pre, x, op[p].req, op[p].adt)

\* An Update committed and changed its Org while another Org, and the Apps,
\* Users and OrgKinds, were in the store.
C23_Witness ==
    \E p \in Procs :
        /\ Updated(p)
        /\ db # op[p].pre
        /\ Cardinality(db.orgs) > 1
        /\ db.apps # {} /\ db.users # {} /\ db.kinds # {}

\* ---- C24
OrgOperations == {"Create", "Update", "Delete", "FindAll", "FindByExternalID"}

\* The OrgKind rows p's transaction has inserted and not yet committed.
PendingKinds(p) ==
    {tx[p].writes[i].row : i \in {j \in DOMAIN tx[p].writes : tx[p].writes[j].t = "insKind"}}

\* C24: no Create, Update, Delete, FindAll or FindByExternalID issues a write
\* of an OrgKind row or holds one pending; no step removes or changes an
\* OrgKind row of the committed store, and the only step that adds any is the
\* commit of a Seed, which adds the rows its kind seeding inserted.
C24_KindsImmutable ==
    /\ [](\A p \in Procs :
            op[p].name \in OrgOperations =>
                /\ ~Issued(p, "CreateOrgKind")
                /\ PendingKinds(p) = {})
    /\ [][/\ db.kinds \subseteq db'.kinds
          /\ db'.kinds # db.kinds =>
                \E p \in Procs :
                    /\ op[p].name = "Seed"
                    /\ pc[p] = "seedCommit"
                    /\ Got(p, "CommitTx", "ok")'
                    /\ db'.kinds \ db.kinds = PendingKinds(p)
                    /\ {k.ExternalID : k \in PendingKinds(p)} = KindTags
         ]_vars

\* A Create, an Update or a Delete committed a change to a store that holds
\* the three seeded OrgKind rows.
C24_Witness ==
    \E p \in Procs :
        /\ Done(p)
        /\ op[p].name \in {"Create", "Update", "Delete"}
        /\ Got(p, "CommitTx", "ok")
        /\ db # op[p].pre
        /\ {k.ExternalID : k \in db.kinds} = KindTags

\* ---- C25
\* The i-th storage call of p failed: an error, an affected-row count other
\* than 1, or no row where the operation needs one (the guard of Seed expects
\* to find none).
StepFailed(p, i) ==
    \/ calls[p][i].res \in {"err", "rows"}
    \/ calls[p][i].res = "norows" /\ op[p].name # "Seed"

\* How many statements of kind c one call of p's operation has to issue.
Attempts(p, c) ==
    CASE c = "RollbackTx" -> 1
      [] op[p].name = "Seed" /\ c = "CreateOrgKind" -> Cardinality(KindTags)
      [] op[p].name = "Seed" /\ c \in {"CreateOrg", "CreateApp", "CreateUser"} -> 2
      [] op[p].name = "Delete" /\ c = "DeleteApp" -> Cardinality(OwnedBefore(p))
      [] OTHER -> 1

\* C25: within one Create, Update, Delete or Seed no statement is issued more
\* often than the operation needs it (no statement is tried again), and once a
\* storage call has failed the call issues nothing but the rollback: no
\* further read, no further write and no CommitTx.
C25_FailFast ==
    \A p \in Procs :
        op[p].name \in {"Create", "Update", "Delete", "Seed"} =>
            /\ \A i \in DOMAIN calls[p] :
                  /\ Times(p, calls[p][i].c) <= Attempts(p, calls[p][i].c)
                  /\ StepFailed(p, i) =>
                        \A j \in DOMAIN calls[p] : j > i => calls[p][j].c = "RollbackTx"

\* A call whose write failed after earlier statements had succeeded, and that
\* ended with the rollback as its next and last storage call.
C25_Witness ==
    \E p \in Procs :
        /\ Done(p)
        /\ op[p].name \in {"Create", "Update", "Delete", "Seed"}
        /\ \E i \in DOMAIN calls[p] :
              /\ i > 2
              /\ calls[p][i].c \in WriteCalls
              /\ StepFailed(p, i)
              /\ Len(calls[p]) = i + 1
              /\ calls[p][i + 1].c = "RollbackTx"

\* ---- C26
\* The Orgs of store d that carry the external ID p's operation names.
Named(d, p) == {o \in d.orgs : o.ExternalID = op[p].req.ExternalID}

\* C26: a Delete returns DeleteResponse{ExternalID: extlID, Deleted: true}
\* only with a nil error, after its transaction was committed and with the
\* Org, present when Delete was called, gone from the committed store; on
\* every other path it returns the zero DeleteResponse with a non-nil error,
\* nothing was committed, and the committed store, the Org included when
\* there was one, is as it was when Delete was called.
C26_DeleteResponseAgrees ==
    \A p \in Procs :
        Is(p, "Delete") =>
            IF out[p].resp.Deleted
            THEN /\ out[p].resp = [ExternalID |-> op[p].req.ExternalID, Deleted |-> TRUE]
                 /\ out[p].err = NoErr
                 /\ Got(p, "DeleteOrg", "ok")
                 /\ Got(p, "CommitTx", "ok")
                 /\ Named(op[p].pre, p) # {}
                 /\ Named(db, p) = {}
            ELSE /\ out[p].resp = Zero("Delete")
                 /\ out[p].err # NoErr
                 /\ ~Got(p, "CommitTx", "ok")
                 /\ db = op[p].pre

\* A Delete of an Org in the store failed after its transaction was opened
\* (at the lookup, an App delete, the Org delete, a row count or the commit)
\* and returned.
C26_Witness ==
    \E p \in Procs :
        /\ Is(p, "Delete")
        /\ Opened(p)
        /\ Named(db, p) # {}
        /\ ~out[p].resp.Deleted
        /\ \/ Got(p, "DeleteOrg", "rows")
           \/ Got(p, "CommitTx", "err")

====
